---- MODULE Spec2Model ----
(***************************************************************************)
(* CertCreate: the certificate ledger of data_store.py (a JSON document    *)
(* on disk, re-read and re-written whole by every operation under a        *)
(* threading.Lock), the content filter of profanity_filter.py and the      *)
(* request handlers of app.py.                                             *)
(*                                                                         *)
(* The specifications share the definitions below:                         *)
(*   Spec        one caller issuing ledger operations one after another,   *)
(*               each handler one action, with the storage faults the      *)
(*               operating system can produce on a read or a write;        *)
(*   SpecThreads the threads of one process, each running one record       *)
(*               call step by step (acquire, load, mutate, open, dump,     *)
(*               release);                                                 *)
(*   SpecProcs   the same steps for the threads of process p1 and one      *)
(*               thread of process p2, which share the file but each own   *)
(*               their module-level _lock;                                 *)
(*   SpecStats   the sequential caller recording schools of more ids and   *)
(*               regions and reading the statistics;                       *)
(*   SpecFilter  normalize_text and contains_profanity applied to every    *)
(*               short text;                                               *)
(*   SpecFields  check_all_fields applied to every short list of fields;   *)
(*   SpecWeb     one browser session posting to the request handlers;      *)
(*   SpecWebPair two such sessions that differ only in the teacher and     *)
(*               student names submitted.                                  *)
(***************************************************************************)
EXTENDS Integers, FiniteSets, Sequences, TLC

VARIABLES
    file,     \* data/certificates.json: [st, doc]
    now,      \* datetime.now(), as a tick count
    ret,      \* what the last handler of the sequential caller returned
    pc,       \* concurrent callers: the step each one is at
    data,     \* concurrent callers: the local `data` of the running call
    call,     \* concurrent callers: the arguments of the running call
    _lock,    \* per process: whether its threading.Lock is held
    arg,      \* filter: the argument of the call under test
    checked,  \* filter: the field names check_all_fields has evaluated
    res,      \* filter: what the call returned
    session,  \* web, per run: the Flask session of the browser
    store,    \* web, per run: data/certificates.json
    written,  \* web, per run: the records the ledger was handed, in order
    resp      \* web, per run: the response to the last request

ledgerVars == <<file, now, ret, pc, data, call, _lock>>
filterVars == <<arg, checked, res>>
webVars == <<session, store, written, resp>>
vars == <<ledgerVars, filterVars, webVars>>

-----------------------------------------------------------------------------
(* Bounds and value domains *)

MaxTime == 1            \* the clock takes the values 0..MaxTime
NumStatIds == 3         \* distinct certificate ids of SpecStats
NumThreads == 3         \* threads of the one process of SpecThreads
ThreadsPerProc == 2     \* threads of process p1 of SpecProcs
MaxLen == 4             \* characters of a text handed to the filter
MaxFields == 2          \* fields handed to check_all_fields
MaxRequests == 3        \* requests of one browser session

\* Python's None (distinct from every str of the model, "" included).
None == "<None>"

CertIds == {"ABC123", "DEF456"}
\* "Ysgol Ty Coch" stands for 'Ysgol T\^y Coch', whose y-circumflex takes two
\* bytes in UTF-8 (the file is written with ensure_ascii=False).
SchoolNames == {"Oak School", "Ysgol Ty Coch"}
NonAsciiNames == {"Ysgol Ty Coch"}

\* The outcomes of opening an existing file for reading, and of writing it.
ReadOutcomes == {"ok", "ioerror"}
WriteOutcomes == {"ok", "open_error", "write_error", "write_error_midchar"}

-----------------------------------------------------------------------------
(* Python helpers *)

\* dict.get(key, default)
Get(d, key, default) == IF key \in DOMAIN d THEN d[key] ELSE default

\* d.setdefault(key, value): an existing entry is kept.
PutIfAbsent(d, key, value) ==
    [k \in (DOMAIN d) \cup {key} |->
        IF k \in DOMAIN d THEN d[k] ELSE value]

\* d[key] = value on a dict
Put(d, key, value) ==
    [k \in (DOMAIN d) \cup {key} |-> IF k = key THEN value ELSE d[k]]

\* Truth value of a str-or-None
Truthy(v) == v # None /\ v # ""

EmptyDict == [k \in {} |-> None]

\* The percentage cut to one decimal place instead of rounded.
RoundPctDown(count, total) == (1000 * count) \div total

\* round(count / total * 100, 1), in tenths of a percent; a tie goes to the
\* even tenth, as Python's round does.
RoundPct(count, total) ==
    LET q == (1000 * count) \div total
        r == (1000 * count) % total
    IN  IF 2 * r < total THEN q
        ELSE IF 2 * r > total THEN q + 1
        ELSE IF q % 2 = 0 THEN q ELSE q + 1

-----------------------------------------------------------------------------
(* The persisted document *)

\* The default structure _load_data returns.
DefaultData ==
    [school_certificates |-> EmptyDict,
     student_certificates |-> EmptyDict,
     stats |-> [total_school_certificates |-> 0,
                total_student_certificates |-> 0]]

\* The file does not exist.
FileAbsent == [st |-> "absent", doc |-> DefaultData]

\* The file after open(DATA_FILE, 'w') truncated it, or with only a prefix
\* of a document written: it exists and json.load raises JSONDecodeError.
FileTruncated == [st |-> "truncated", doc |-> DefaultData]

\* The file with a prefix of a document that ends inside a multi-byte
\* character: it is not valid UTF-8 and reading it raises UnicodeDecodeError.
FileUndecodable == [st |-> "undecodable", doc |-> DefaultData]

\* The file after json.dump(data, f) completed. cert ids and names are str,
\* region is str or None, the counters are int: json.load gives back the
\* value that was dumped.
FileOf(d) == [st |-> "json", doc |-> d]

\* A load that never reads the file.
LoadNothing(f, rf) == DefaultData

\* _load_data raises: UnicodeDecodeError is a ValueError, but neither a
\* JSONDecodeError nor an IOError, so line 35 does not catch it.
LoadRaises(f, rf) == f.st = "undecodable" /\ rf = "ok"

\* _load_data, when it returns: the default structure when the file is
\* absent, cannot be opened (IOError), or does not parse (JSONDecodeError).
_load_data(f, rf) ==
    IF f.st = "absent" THEN DefaultData
    ELSE IF rf = "ioerror" THEN DefaultData
    ELSE IF f.st = "truncated" THEN DefaultData
    ELSE f.doc

\* The document d holds a character outside ASCII.
HasNonAscii(d) ==
    \/ \E id \in DOMAIN d.school_certificates :
          d.school_certificates[id].school_name \in NonAsciiNames
    \/ \E id \in DOMAIN d.student_certificates :
          d.student_certificates[id].school_name \in NonAsciiNames

\* _save_data: open(..., 'w') truncates the file, json.dump writes it.
\* open_error: open raises, the file is untouched. write_error: the write
\* raises after the truncation and a prefix of the document is left;
\* write_error_midchar: that prefix ends inside a multi-byte character.
_save_data(f, d, wf) ==
    IF wf = "open_error" THEN f
    ELSE IF wf = "write_error" THEN FileTruncated
    ELSE IF wf = "write_error_midchar" THEN FileUndecodable
    ELSE FileOf(d)

\* The total counted up by one per call instead of set to the length.
SetTotalSchoolIncr(d) ==
    [d EXCEPT !.stats.total_school_certificates = @ + 1]

\* data['stats']['total_school_certificates'] = len(data['school_certificates'])
SetTotalSchool(d) ==
    [d EXCEPT !.stats.total_school_certificates =
                  Cardinality(DOMAIN d.school_certificates)]

SetTotalStudent(d) ==
    [d EXCEPT !.stats.total_student_certificates =
                  Cardinality(DOMAIN d.student_certificates)]

\* The mutation of record_school_certificate on the loaded data.
MutateSchool(d, cert_id, school_name, region, t) ==
    SetTotalSchool(
        [d EXCEPT !.school_certificates =
            Put(@, cert_id, [school_name |-> school_name,
                             region |-> region,
                             date |-> t])])

\* The mutation of record_student_certificate on the loaded data.
MutateStudent(d, cert_id, school_name, t) ==
    SetTotalStudent(
        [d EXCEPT !.student_certificates =
            Put(@, cert_id, [school_name |-> school_name, date |-> t])])

-----------------------------------------------------------------------------
(* get_stats and get_certificate_info on the loaded data *)

FixedRegions == {"England", "Wales", "Northern Ireland", "Scotland"}

\* country = cert_data.get('region', 'Unknown')
CountryOf(cert_data) == Get(cert_data, "region", "Unknown")

\* The loop of lines 112-115: a certificate is counted under its country
\* only `if country:`.
CountryCounts(d) ==
    LET certs == d.school_certificates
        keys == {CountryOf(certs[id]) : id \in DOMAIN certs}
    IN  [c \in {k \in keys : Truthy(k)} |->
            Cardinality({id \in DOMAIN certs : CountryOf(certs[id]) = c})]

\* Lines 120-127.
CountryPercentages(counts, total) ==
    IF total > 0
    THEN [c \in DOMAIN counts |-> RoundPct(counts[c], total)]
    ELSE EmptyDict

\* The loop of lines 130-139: region = cert_data.get('region').
RegionCounts(d) ==
    LET certs == d.school_certificates
    IN  [r \in FixedRegions |->
            Cardinality({id \in DOMAIN certs :
                            Get(certs[id], "region", None) = r})]

\* Lines 142-148 written like lines 120-127: no keys when the total is 0.
RegionPercentagesOmit(counts, total) ==
    IF total > 0
    THEN [r \in DOMAIN counts |-> RoundPct(counts[r], total)]
    ELSE EmptyDict

\* Lines 142-148.
RegionPercentages(counts, total) ==
    IF total > 0
    THEN [r \in DOMAIN counts |-> RoundPct(counts[r], total)]
    ELSE [r \in DOMAIN counts |-> 0]

\* The dict get_stats returns for the loaded data d.
StatsOf(d) ==
    LET total == d.stats.total_school_certificates
    IN  [total_school_certificates |-> total,
         total_student_certificates |-> d.stats.total_student_certificates,
         countries |-> CountryCounts(d),
         country_percentages |-> CountryPercentages(CountryCounts(d), total),
         regions |-> RegionCounts(d),
         region_percentages |-> RegionPercentages(RegionCounts(d), total)]

\* A handler that returns None.
NoValue == [type |-> None]

\* Lines 177-187 with the two lookups in the other order.
InfoOfStudentFirst(d, cert_id) ==
    IF cert_id \in DOMAIN d.student_certificates
    THEN LET c == d.student_certificates[cert_id]
         IN  [type |-> "student", school_name |-> c.school_name,
              date |-> c.date]
    ELSE IF cert_id \in DOMAIN d.school_certificates
    THEN LET c == d.school_certificates[cert_id]
         IN  [type |-> "school", school_name |-> c.school_name,
              region |-> c.region, date |-> c.date]
    ELSE NoValue

\* The value get_certificate_info returns for the loaded data d.
InfoOf(d, cert_id) ==
    IF cert_id \in DOMAIN d.school_certificates
    THEN LET c == d.school_certificates[cert_id]
         IN  [type |-> "school", school_name |-> c.school_name,
              region |-> c.region, date |-> c.date]
    ELSE IF cert_id \in DOMAIN d.student_certificates
    THEN LET c == d.student_certificates[cert_id]
         IN  [type |-> "student", school_name |-> c.school_name,
              date |-> c.date]
    ELSE NoValue

-----------------------------------------------------------------------------
(* The ledger's handlers, one action each (sequential caller) *)

\* The caller is between two calls.
Idle == [op |-> "idle"]

\* What the caller sees of a finished call: the call, the storage faults
\* that happened in it, whether it raised, and the value returned. `before`
\* is the file as the call found it and `at` the clock it read; no code
\* reads them, the properties do.
Result(op, args, rf, wf, raised, value) ==
    [op |-> op, args |-> args, rf |-> rf, wf |-> wf,
     raised |-> raised, value |-> value, before |-> file, at |-> now]

\* A read can only fail on a file that exists (line 31).
ReadPossible(rf) == rf = "ioerror" => file.st # "absent"

\* The write faults that can happen when the loaded data is d: none when the
\* load raised (nothing is written), and a prefix can end inside a
\* multi-byte character only if the document holds one.
WritePossible(d, rf, wf) ==
    /\ LoadRaises(file, rf) => wf = "ok"
    /\ wf = "write_error_midchar" => HasNonAscii(d)

\* The file a record call leaves, d being the loaded data after the
\* mutation: an exception of the load leaves the `with` block before the
\* save.
Saved(d, rf, wf) ==
    IF LoadRaises(file, rf) THEN file ELSE _save_data(file, d, wf)

\* Whether the record call raises.
RecordRaises(rf, wf) == LoadRaises(file, rf) \/ wf # "ok"

\* The value a read-only call returns (none when the load raised).
Returned(rf, value) == IF LoadRaises(file, rf) THEN NoValue ELSE value

record_school_certificate(cert_id, school_name, region, rf, wf) ==
    LET d == MutateSchool(_load_data(file, rf), cert_id, school_name,
                          region, now)
    IN  /\ ret = Idle
        /\ ReadPossible(rf)
        /\ WritePossible(d, rf, wf)
        /\ file' = Saved(d, rf, wf)
        /\ ret' = Result("record_school_certificate",
                         [cert_id |-> cert_id, school_name |-> school_name,
                          region |-> region],
                         rf, wf, RecordRaises(rf, wf), NoValue)
        /\ UNCHANGED <<now, pc, data, call, _lock, filterVars, webVars>>

record_student_certificate(cert_id, school_name, rf, wf) ==
    LET d == MutateStudent(_load_data(file, rf), cert_id, school_name, now)
    IN  /\ ret = Idle
        /\ ReadPossible(rf)
        /\ WritePossible(d, rf, wf)
        /\ file' = Saved(d, rf, wf)
        /\ ret' = Result("record_student_certificate",
                         [cert_id |-> cert_id, school_name |-> school_name],
                         rf, wf, RecordRaises(rf, wf), NoValue)
        /\ UNCHANGED <<now, pc, data, call, _lock, filterVars, webVars>>

get_stats(rf) ==
    /\ ret = Idle
    /\ ReadPossible(rf)
    /\ ret' = Result("get_stats", NoValue, rf, "ok", LoadRaises(file, rf),
                     Returned(rf, StatsOf(_load_data(file, rf))))
    /\ UNCHANGED <<file, now, pc, data, call, _lock, filterVars, webVars>>

get_certificate_info(cert_id, rf) ==
    /\ ret = Idle
    /\ ReadPossible(rf)
    /\ ret' = Result("get_certificate_info", [cert_id |-> cert_id], rf, "ok",
                     LoadRaises(file, rf),
                     Returned(rf, InfoOf(_load_data(file, rf), cert_id)))
    /\ UNCHANGED <<file, now, pc, data, call, _lock, filterVars, webVars>>

\* The caller takes the result (or the exception) and may call again.
Return ==
    /\ ret # Idle
    /\ ret' = Idle
    /\ UNCHANGED <<file, now, pc, data, call, _lock, filterVars, webVars>>

\* The clock advances.
Tick ==
    /\ now < MaxTime
    /\ now' = now + 1
    /\ UNCHANGED <<file, ret, pc, data, call, _lock, filterVars, webVars>>

\* The filter is not called and no request is served.
FilterUnused == arg = <<>> /\ checked = <<>> /\ res = Idle
WebUnused ==
    session = <<>> /\ store = <<>> /\ written = <<>> /\ resp = <<>>

InitLedger ==
    /\ FilterUnused
    /\ WebUnused
    /\ file = FileAbsent
    /\ now = 0
    /\ ret = Idle
    /\ pc = EmptyDict
    /\ data = EmptyDict
    /\ call = EmptyDict
    /\ _lock = EmptyDict

\* The regions the caller of Spec passes (None: the parameter's default).
Regions == {None, "Wales"}

Next ==
    \/ \E cert_id \in CertIds, school_name \in SchoolNames, region \in Regions,
          rf \in ReadOutcomes, wf \in WriteOutcomes :
          record_school_certificate(cert_id, school_name, region, rf, wf)
    \/ \E cert_id \in CertIds, school_name \in SchoolNames,
          rf \in ReadOutcomes, wf \in WriteOutcomes :
          record_student_certificate(cert_id, school_name, rf, wf)
    \/ \E rf \in ReadOutcomes : get_stats(rf)
    \/ \E cert_id \in CertIds, rf \in ReadOutcomes :
          get_certificate_info(cert_id, rf)
    \/ Return
    \/ Tick

Spec == InitLedger /\ [][Next]_vars

-----------------------------------------------------------------------------
(* Properties of the sequential ledger (Spec) *)

Kinds == {"school_certificates", "student_certificates"}

\* The mapping of one kind that a parse of the file f yields (none when the
\* file is absent or does not parse).
Records(f, kind) == IF f.st = "json" THEN f.doc[kind] ELSE EmptyDict

\* The stats counters stored in the file f.
StoredStats(f) == IF f.st = "json" THEN f.doc.stats ELSE DefaultData.stats

\* The handler that records into the mapping `kind`.
RecordOp(kind) ==
    IF kind = "school_certificates" THEN "record_school_certificate"
    ELSE "record_student_certificate"

\* The last call has finished and no storage fault happened in it.
CleanCall == ret # Idle /\ ret.rf = "ok" /\ ret.wf = "ok"

\* The last call was a record call into `kind`.
Recorded(kind) == ret # Idle /\ ret.op = RecordOp(kind)

\* The record the last call (a record call into `kind`) was asked to store.
NewRecord(kind) ==
    IF kind = "school_certificates"
    THEN [school_name |-> ret.args.school_name, region |-> ret.args.region,
          date |-> ret.at]
    ELSE [school_name |-> ret.args.school_name, date |-> ret.at]

C5_LastWriteWins ==
    \A kind \in Kinds :
        (CleanCall /\ Recorded(kind)
            /\ ret.args.cert_id \in DOMAIN Records(ret.before, kind)) =>
        /\ ~ret.raised
        /\ file.st = "json"
        /\ DOMAIN Records(file, kind) = DOMAIN Records(ret.before, kind)
        /\ Records(file, kind)[ret.args.cert_id] = NewRecord(kind)
        /\ StoredStats(file) = StoredStats(ret.before)

\* C5 witness: a student record call found its id taken by a different
\* record and returned.
C5_Witness ==
    /\ CleanCall
    /\ Recorded("student_certificates")
    /\ ret.args.cert_id \in DOMAIN Records(ret.before, "student_certificates")
    /\ Records(ret.before, "student_certificates")[ret.args.cert_id]
          # NewRecord("student_certificates")

\* C6 (as claimed): a call whose read of the existing file failed (its
\* write, if it made one, did not) raises and applies nothing: the file is
\* as the call found it, not a ledger restarted from empty.
C6_ReadFaultSurfaced ==
    (ret # Idle /\ ret.rf = "ioerror" /\ ret.wf = "ok") =>
        ret.raised /\ file = ret.before

\* C7 (as claimed): a call that raises leaves the file exactly as it found
\* it; here for a file that held a document, so that every record stored
\* before is still there and the file still parses.
C7_RaiseLeavesFileUntouched ==
    (ret # Idle /\ ret.raised /\ ret.before.st = "json") => file = ret.before

\* The file f exists and cannot be parsed.
Unparsable(f) == f.st \in {"truncated", "undecodable"}

\* C8 (as claimed): a call that finds a file that cannot be parsed treats the
\* ledger as empty and does not raise (unless its own write fails):
\* get_stats reports zero totals and no countries, get_certificate_info
\* reports None, and a record call whose write succeeds leaves a well-formed
\* document holding the new record and nothing else.
C8_CorruptTreatedAsEmpty ==
    (ret # Idle /\ Unparsable(ret.before)) =>
        /\ ret.wf = "ok" => ~ret.raised
        /\ ret.op = "get_stats" =>
              /\ ret.value.total_school_certificates = 0
              /\ ret.value.total_student_certificates = 0
              /\ DOMAIN ret.value.countries = {}
        /\ ret.op = "get_certificate_info" => ret.value = NoValue
        /\ \A kind \in Kinds : (Recorded(kind) /\ ret.wf = "ok") =>
              /\ file.st = "json"
              /\ DOMAIN Records(file, kind) = {ret.args.cert_id}
              /\ Records(file, kind)[ret.args.cert_id] = NewRecord(kind)
              /\ \A other \in Kinds \ {kind} : DOMAIN Records(file, other) = {}

\* C9: the totals stored in the file are the sizes of its two mappings, and a
\* get_stats that read the file and returned reports exactly them.
C9_TotalsAreMappingSizes ==
    LET nschool == Cardinality(DOMAIN Records(file, "school_certificates"))
        nstudent == Cardinality(DOMAIN Records(file, "student_certificates"))
    IN  /\ StoredStats(file).total_school_certificates = nschool
        /\ StoredStats(file).total_student_certificates = nstudent
        /\ (ret # Idle /\ ret.op = "get_stats" /\ ret.rf = "ok"
                /\ ~ret.raised) =>
              /\ ret.value.total_school_certificates = nschool
              /\ ret.value.total_student_certificates = nstudent

\* C9 witness: get_stats after both ids were recorded as schools, one of them
\* also as a student.
C9_Witness ==
    /\ ret # Idle /\ ret.op = "get_stats" /\ ret.rf = "ok" /\ ~ret.raised
    /\ ret.value.total_school_certificates = 2
    /\ ret.value.total_student_certificates = 1

\* The tag get_certificate_info puts on a record of the mapping `kind`.
TagOf(kind) == IF kind = "school_certificates" THEN "school" ELSE "student"

\* The last call was a lookup that read the file and returned.
LookedUp ==
    ret # Idle /\ ret.op = "get_certificate_info" /\ ret.rf = "ok"
        /\ ~ret.raised

\* C12: a lookup that read the document returns the School record of the id
\* tagged "school" if the id is in the school mapping, otherwise its Student
\* record tagged "student" if it is in the student mapping, otherwise None;
\* so an id recorded under both kinds yields the School record.
C12_SchoolBeforeStudent ==
    LookedUp =>
        LET id == ret.args.cert_id
            schools == Records(file, "school_certificates")
            students == Records(file, "student_certificates")
        IN  IF id \in DOMAIN schools
            THEN ret.value = [type |-> "school"] @@ schools[id]
            ELSE IF id \in DOMAIN students
            THEN ret.value = [type |-> "student"] @@ students[id]
            ELSE ret.value = NoValue

\* C12 witness: a lookup of an id that is in both mappings returns the
\* School record.
C12_Witness ==
    /\ LookedUp
    /\ ret.args.cert_id \in DOMAIN Records(file, "school_certificates")
    /\ ret.args.cert_id \in DOMAIN Records(file, "student_certificates")
    /\ ret.value.type = "school"

\* C13 (as claimed): durability. No handler keeps anything in memory between
\* two calls (each one loads the file afresh), so a restart of the process
\* changes nothing and the claim is one about the file: (1) when a record
\* call has returned, its record is in the file; (2) a later record call
\* that returns keeps every record of another id the file had; (3) a lookup
\* that reads the file returns each record in it with the tag of its kind.
C13_Durable ==
    /\ \A kind \in Kinds :
          (Recorded(kind) /\ ~ret.raised) =>
              /\ ret.args.cert_id \in DOMAIN Records(file, kind)
              /\ Records(file, kind)[ret.args.cert_id] = NewRecord(kind)
    /\ \A kind \in Kinds :
          ((Recorded("school_certificates")
                \/ Recorded("student_certificates")) /\ ~ret.raised) =>
              \A id \in DOMAIN Records(ret.before, kind) \ {ret.args.cert_id} :
                  /\ id \in DOMAIN Records(file, kind)
                  /\ Records(file, kind)[id] = Records(ret.before, kind)[id]
    /\ \A kind \in Kinds :
          (LookedUp /\ ret.args.cert_id \in DOMAIN Records(file, kind)) =>
              ret.value = [type |-> TagOf(kind)]
                              @@ Records(file, kind)[ret.args.cert_id]

-----------------------------------------------------------------------------
(* The statistics (SpecStats): school records of more ids and regions, read
   by get_stats. get_stats reads neither a date nor a school name, so the
   clock stands still and one name is recorded; no storage fault happens. *)

\* The i-th of NumStatIds distinct certificate ids.
StatIds == 1..NumStatIds

StatRegions == {None, "", "Wales", "wales", "England", "France"}

NextStats ==
    \/ \E cert_id \in StatIds, region \in StatRegions :
          record_school_certificate(cert_id, "Oak School", region, "ok", "ok")
    \/ get_stats("ok")
    \/ Return

SpecStats == InitLedger /\ [][NextStats]_vars

\* The sum of the values of a dict of numbers.
RECURSIVE SumValues(_)
SumValues(d) ==
    IF DOMAIN d = {} THEN 0
    ELSE LET k == CHOOSE x \in DOMAIN d : TRUE
         IN  d[k] + SumValues([x \in (DOMAIN d) \ {k} |-> d[x]])

\* The key C3 puts a School record under: its region, or "Unknown" when the
\* region is absent, None or empty.
ClaimedKey(cert_data) ==
    IF "region" \in DOMAIN cert_data /\ Truthy(cert_data.region)
    THEN cert_data.region
    ELSE "Unknown"

\* C3 (as claimed): get_stats counts every School record of the document in
\* countries, under its region or under "Unknown", so the counts sum to
\* total_school_certificates.
C3_EveryRecordCounted ==
    (ret # Idle /\ ret.op = "get_stats") =>
        LET certs == Records(file, "school_certificates")
            counted == ret.value.countries
        IN  /\ \A id \in DOMAIN certs :
                  /\ ClaimedKey(certs[id]) \in DOMAIN counted
                  /\ counted[ClaimedKey(certs[id])] =
                        Cardinality({j \in DOMAIN certs :
                            ClaimedKey(certs[j]) = ClaimedKey(certs[id])})
            /\ SumValues(counted) = ret.value.total_school_certificates

\* C10: in the dict get_stats returns, country_percentages has the keys of
\* countries when the total is positive, each value (in tenths of a percent)
\* a whole number of tenths nearest to 100 * count / total, and it is empty
\* when the total is 0.
C10_PercentageByRegion ==
    (ret # Idle /\ ret.op = "get_stats") =>
        LET total == ret.value.total_school_certificates
            counts == ret.value.countries
            pct == ret.value.country_percentages
        IN  /\ total > 0 =>
                /\ DOMAIN pct = DOMAIN counts
                /\ \A c \in DOMAIN counts :
                      /\ pct[c] \in 0..1000
                      /\ 2 * (pct[c] * total - 1000 * counts[c]) <= total
                      /\ 2 * (1000 * counts[c] - pct[c] * total) <= total
            /\ total = 0 => DOMAIN pct = {}

\* C10 witness: get_stats on three School records, two in Wales and one in
\* England: 66.7 and 33.3.
C10_Witness ==
    /\ ret # Idle /\ ret.op = "get_stats"
    /\ ret.value.total_school_certificates = 3
    /\ DOMAIN ret.value.country_percentages = {"Wales", "England"}
    /\ ret.value.country_percentages["Wales"] = 667
    /\ ret.value.country_percentages["England"] = 333

\* C11: in the dict get_stats returns, regions and region_percentages always
\* have exactly the four keys England, Wales, Northern Ireland and Scotland;
\* each count is the number of School records of the document whose region
\* is that very name, so a record with any other region is in none of them;
\* and with no School record all four counts and all four percentages are 0.
C11_FixedRegionBreakdown ==
    (ret # Idle /\ ret.op = "get_stats") =>
        LET certs == Records(file, "school_certificates")
            counts == ret.value.regions
            pct == ret.value.region_percentages
        IN  /\ DOMAIN counts =
                  {"England", "Wales", "Northern Ireland", "Scotland"}
            /\ DOMAIN pct = DOMAIN counts
            /\ \A r \in DOMAIN counts :
                  counts[r] = Cardinality({id \in DOMAIN certs :
                                 /\ "region" \in DOMAIN certs[id]
                                 /\ certs[id].region = r})
            /\ DOMAIN certs = {} =>
                  \A r \in DOMAIN counts : counts[r] = 0 /\ pct[r] = 0

\* C11 witnesses: get_stats on a ledger with no School record, and get_stats
\* on one Wales record next to a "wales" and a France record that no key
\* counts.
C11_WitnessEmpty ==
    /\ ret # Idle /\ ret.op = "get_stats"
    /\ Records(file, "school_certificates") = EmptyDict
    /\ \A r \in FixedRegions : ret.value.region_percentages[r] = 0

C11_Witness ==
    /\ ret # Idle /\ ret.op = "get_stats"
    /\ LET certs == Records(file, "school_certificates")
       IN  {certs[id].region : id \in DOMAIN certs} =
              {"Wales", "wales", "France"}
    /\ ret.value.regions["Wales"] = 1
    /\ SumValues(ret.value.regions) = 1

-----------------------------------------------------------------------------
(* Concurrent callers (SpecThreads, SpecProcs): each caller <<process,
   thread>> runs one record call, for an id of its own, step by step. The
   module-level _lock is one Lock per process: every process that imports
   data_store creates its own. No storage fault happens and the clock stands
   still. *)

ProcOf(c) == c[1]

\* The certificate id caller c records: pairwise distinct.
CertIdOf(c) == c

\* Caller c enters record_school_certificate or record_student_certificate.
Call(c, kind) ==
    /\ pc[c] = "idle"
    /\ pc' = [pc EXCEPT ![c] = "acquire"]
    /\ call' = [call EXCEPT ![c] = kind]
    /\ UNCHANGED <<file, now, ret, data, _lock, filterVars, webVars>>

\* `with _lock:` entered without waiting for the holder.
AcquireNoWait(c) ==
    /\ pc[c] = "acquire"
    /\ _lock' = [_lock EXCEPT ![ProcOf(c)] = TRUE]
    /\ pc' = [pc EXCEPT ![c] = "load"]
    /\ UNCHANGED <<file, now, ret, data, call, filterVars, webVars>>

\* `with _lock:` blocks until the lock of the caller's process is free.
Acquire(c) ==
    /\ pc[c] = "acquire"
    /\ ~_lock[ProcOf(c)]
    /\ _lock' = [_lock EXCEPT ![ProcOf(c)] = TRUE]
    /\ pc' = [pc EXCEPT ![c] = "load"]
    /\ UNCHANGED <<file, now, ret, data, call, filterVars, webVars>>

\* data = _load_data()
Load(c) ==
    /\ pc[c] = "load"
    /\ data' = [data EXCEPT ![c] = _load_data(file, "ok")]
    /\ pc' = [pc EXCEPT ![c] = "mutate"]
    /\ UNCHANGED <<file, now, ret, call, _lock, filterVars, webVars>>

\* The record is put into the local data and the total is set.
Mutate(c) ==
    /\ pc[c] = "mutate"
    /\ data' = [data EXCEPT ![c] =
          IF call[c] = "school_certificates"
          THEN MutateSchool(@, CertIdOf(c), "Oak School", "Wales", now)
          ELSE MutateStudent(@, CertIdOf(c), "Oak School", now)]
    /\ pc' = [pc EXCEPT ![c] = "open"]
    /\ UNCHANGED <<file, now, ret, call, _lock, filterVars, webVars>>

\* _save_data: open(DATA_FILE, 'w') truncates the file.
Open(c) ==
    /\ pc[c] = "open"
    /\ file' = FileTruncated
    /\ pc' = [pc EXCEPT ![c] = "dump"]
    /\ UNCHANGED <<now, ret, data, call, _lock, filterVars, webVars>>

\* _save_data: json.dump writes the local data and the file is closed.
Dump(c) ==
    /\ pc[c] = "dump"
    /\ file' = _save_data(file, data[c], "ok")
    /\ pc' = [pc EXCEPT ![c] = "release"]
    /\ UNCHANGED <<now, ret, data, call, _lock, filterVars, webVars>>

\* The `with` block is left and the call returns.
Release(c) ==
    /\ pc[c] = "release"
    /\ _lock' = [_lock EXCEPT ![ProcOf(c)] = FALSE]
    /\ pc' = [pc EXCEPT ![c] = "done"]
    /\ UNCHANGED <<file, now, ret, data, call, filterVars, webVars>>

InitCallers(callers) ==
    /\ FilterUnused
    /\ WebUnused
    /\ file = FileAbsent
    /\ now = 0
    /\ ret = Idle
    /\ pc = [c \in callers |-> "idle"]
    /\ data = [c \in callers |-> DefaultData]
    /\ call = [c \in callers |-> None]
    /\ _lock = [p \in {ProcOf(c) : c \in callers} |-> FALSE]

NextCallers ==
    \/ \E c \in DOMAIN pc, kind \in Kinds : Call(c, kind)
    \/ \E c \in DOMAIN pc : Acquire(c)
    \/ \E c \in DOMAIN pc : Load(c)
    \/ \E c \in DOMAIN pc : Mutate(c)
    \/ \E c \in DOMAIN pc : Open(c)
    \/ \E c \in DOMAIN pc : Dump(c)
    \/ \E c \in DOMAIN pc : Release(c)

\* The threads of one process.
SpecThreads ==
    InitCallers({"p1"} \X (1..NumThreads)) /\ [][NextCallers]_vars

\* Two processes on the same file: the threads of p1 and one thread of p2.
SpecProcs ==
    InitCallers(({"p1"} \X (1..ThreadsPerProc)) \cup {<<"p2", 1>>})
        /\ [][NextCallers]_vars

\* Every call has returned.
AllDone == \A c \in DOMAIN pc : pc[c] = "done"

\* Caller c holds the lock of its process.
InCriticalSection(c) ==
    pc[c] \in {"load", "mutate", "open", "dump", "release"}

\* C1: when the threads of one process have all returned from their record
\* calls (distinct ids), the file holds, in each mapping, exactly the ids
\* recorded into it, and each stored total is the number of those calls: N
\* for N calls of record_student_certificate.
C1_NoLostUpdateAmongThreads ==
    AllDone =>
        /\ file.st = "json"
        /\ \A kind \in Kinds :
              DOMAIN Records(file, kind) =
                  {CertIdOf(c) : c \in {x \in DOMAIN pc : call[x] = kind}}
        /\ StoredStats(file).total_student_certificates =
              Cardinality({c \in DOMAIN pc : call[c] = "student_certificates"})
        /\ StoredStats(file).total_school_certificates =
              Cardinality({c \in DOMAIN pc : call[c] = "school_certificates"})

\* C1 witness: all NumThreads threads called record_student_certificate and
\* returned.
C1_Witness ==
    /\ AllDone
    /\ \A c \in DOMAIN pc : call[c] = "student_certificates"
    /\ StoredStats(file).total_student_certificates = NumThreads

-----------------------------------------------------------------------------
(* The content filter of profanity_filter.py. A text is a sequence of
   characters (one-character strings). SpecFilter hands normalize_text and
   contains_profanity every text of up to MaxLen characters of Chars, and
   None; SpecFields hands check_all_fields every list of up to MaxFields
   named fields. *)

\* The argument None of a filter function (a tuple that no text equals).
NoText == <<None>>

AsciiUpper ==
    <<"A", "B", "C", "D", "E", "F", "G", "H", "I", "J", "K", "L", "M", "N",
      "O", "P", "Q", "R", "S", "T", "U", "V", "W", "X", "Y", "Z">>

AsciiLower ==
    <<"a", "b", "c", "d", "e", "f", "g", "h", "i", "j", "k", "l", "m", "n",
      "o", "p", "q", "r", "s", "t", "u", "v", "w", "x", "y", "z">>

\* The characters the pattern [a-z] matches.
Letters == {AsciiLower[i] : i \in DOMAIN AsciiLower}

\* The characters str.split() splits on, among those of the texts below.
Whitespace == {" "}

\* Lines 12-32.
BLOCKED_WORDS ==
    {<<"a", "s", "s">>, <<"a", "r", "s", "e">>,
     <<"a", "s", "s", "h", "o", "l", "e">>,
     <<"b", "a", "s", "t", "a", "r", "d">>, <<"b", "i", "t", "c", "h">>,
     <<"b", "l", "o", "o", "d", "y">>,
     <<"b", "o", "l", "l", "o", "c", "k", "s">>,
     <<"b", "u", "g", "g", "e", "r">>,
     <<"b", "u", "l", "l", "s", "h", "i", "t">>, <<"c", "r", "a", "p">>,
     <<"d", "a", "m", "n">>, <<"d", "i", "c", "k">>,
     <<"d", "i", "c", "k", "h", "e", "a", "d">>, <<"f", "a", "g">>,
     <<"f", "a", "g", "g", "o", "t">>, <<"f", "u", "c", "k">>,
     <<"f", "u", "c", "k", "i", "n", "g">>, <<"f", "u", "c", "k", "e", "r">>,
     <<"g", "o", "d", "d", "a", "m">>, <<"g", "o", "d", "d", "a", "m", "n">>,
     <<"h", "e", "l", "l">>, <<"h", "o", "m", "o">>, <<"j", "e", "r", "k">>,
     <<"m", "o", "r", "o", "n">>, <<"n", "i", "g", "g", "e", "r">>,
     <<"n", "i", "g", "g", "a">>, <<"p", "i", "s", "s">>,
     <<"p", "r", "i", "c", "k">>, <<"p", "u", "s", "s", "y">>,
     <<"r", "e", "t", "a", "r", "d">>, <<"s", "h", "i", "t">>,
     <<"s", "h", "i", "t", "t", "y">>, <<"s", "l", "u", "t">>,
     <<"t", "w", "a", "t">>, <<"w", "a", "n", "k", "e", "r">>,
     <<"w", "h", "o", "r", "e">>, <<"n", "a", "z", "i">>,
     <<"h", "i", "t", "l", "e", "r">>, <<"k", "k", "k">>,
     <<"r", "a", "c", "i", "s", "t">>, <<"a", "n", "a", "l">>,
     <<"b", "o", "o", "b">>, <<"b", "o", "o", "b", "s">>,
     <<"b", "r", "e", "a", "s", "t">>, <<"c", "o", "c", "k">>,
     <<"c", "u", "m">>, <<"d", "i", "l", "d", "o">>,
     <<"p", "e", "n", "i", "s">>, <<"p", "o", "r", "n">>, <<"s", "e", "x">>,
     <<"s", "e", "x", "y">>, <<"v", "a", "g", "i", "n", "a">>,
     <<"x", "x", "x">>, <<"c", "o", "c", "a", "i", "n", "e">>,
     <<"h", "e", "r", "o", "i", "n">>, <<"m", "e", "t", "h">>,
     <<"c", "r", "a", "c", "k">>, <<"k", "i", "l", "l">>,
     <<"m", "u", "r", "d", "e", "r">>, <<"r", "a", "p", "e">>,
     <<"t", "e", "r", "r", "o", "r", "i", "s", "t">>}

\* Lines 35-47, in the order of the dict.
LEET_SPEAK_MAP ==
    <<<<"0", "o">>, <<"1", "i">>, <<"3", "e">>, <<"4", "a">>, <<"5", "s">>,
      <<"7", "t">>, <<"8", "b">>, <<"@", "a">>, <<"$", "s">>, <<"!", "i">>,
      <<"+", "t">>>>

\* The characters of the texts of SpecFilter: letters of the blocked words
\* sex, sexy and xxx, an upper-case letter, two leet characters, a blank
\* and a hyphen.
Chars == {"s", "e", "x", "y", "S", "3", "$", " ", "-"}

Texts == UNION {[1..n -> Chars] : n \in 0..MaxLen}

\* `not text`: None or the empty string.
Falsy(text) == text = NoText \/ text = <<>>

\* str.lower() on one character of ASCII.
LowerChar(c) ==
    IF \E i \in DOMAIN AsciiUpper : AsciiUpper[i] = c
    THEN AsciiLower[CHOOSE i \in DOMAIN AsciiUpper : AsciiUpper[i] = c]
    ELSE c

\* text.lower()
Lower(text) == [i \in DOMAIN text |-> LowerChar(text[i])]

\* s.replace(old, new) for one-character old and new.
Replace(s, old, new) == [i \in DOMAIN s |-> IF s[i] = old THEN new ELSE s[i]]

\* The loop of lines 65-66 from the k-th item of LEET_SPEAK_MAP on.
RECURSIVE ReplaceLeet(_, _)
ReplaceLeet(s, k) ==
    IF k > Len(LEET_SPEAK_MAP) THEN s
    ELSE ReplaceLeet(Replace(s, LEET_SPEAK_MAP[k][1], LEET_SPEAK_MAP[k][2]),
                     k + 1)

\* re.sub(r'[^a-z ]', '', s): a pattern that lets the blank through.
AlphaOrBlank(s) == SelectSeq(s, LAMBDA c : c \in Letters \cup {" "})

\* re.sub(r'[^a-z]', '', s)
AlphaOnly(s) == SelectSeq(s, LAMBDA c : c \in Letters)

\* The value normalize_text returns.
NormalizedOf(text) ==
    IF Falsy(text) THEN <<>> ELSE AlphaOnly(ReplaceLeet(Lower(text), 1))

\* normalized.startswith(word)
StartsWith(word, s) ==
    /\ Len(word) <= Len(s)
    /\ \A k \in DOMAIN word : s[k] = word[k]

\* word in s
IsSubstring(word, s) ==
    \E i \in 1..(Len(s) - Len(word) + 1) :
        \A k \in DOMAIN word : s[i + k - 1] = word[k]

\* The blocked words the loop of lines 93-95 would find in the lower-cased
\* text itself.
SubstringHitsRaw(text) ==
    LET normalized == Lower(text)
    IN  {word \in BLOCKED_WORDS : IsSubstring(word, normalized)}

\* The blocked words the loop of lines 93-95 can return: those in the
\* normalized text. Which of them the iteration of the set meets first is
\* not fixed.
SubstringHits(text) ==
    LET normalized == NormalizedOf(text)
    IN  {word \in BLOCKED_WORDS : IsSubstring(word, normalized)}

\* s.split(): the maximal runs of non-whitespace characters, in order.
RECURSIVE Split(_)
Split(s) ==
    IF s = <<>> THEN <<>>
    ELSE IF Head(s) \in Whitespace THEN Split(Tail(s))
    ELSE LET ends == {i \in DOMAIN s : s[i] \in Whitespace}
             n == IF ends = {} THEN Len(s)
                  ELSE (CHOOSE i \in ends : \A j \in ends : i <= j) - 1
         IN  <<SubSeq(s, 1, n)>> \o Split(SubSeq(s, n + 1, Len(s)))

\* The normalized words of lines 98-102 that are blocked words, in order.
WordHits(text) ==
    LET words == Split(Lower(text))
    IN  SelectSeq([i \in DOMAIN words |-> NormalizedOf(words[i])],
                  LAMBDA w : w \in BLOCKED_WORDS)

\* (False, None)
Clean == [has_profanity |-> FALSE, matched |-> NoText]

\* (True, word)
Found(word) == [has_profanity |-> TRUE, matched |-> word]

\* The values contains_profanity can return.
ProfanityOf(text) ==
    LET hits == SubstringHits(text)
        words == WordHits(text)
    IN  IF Falsy(text) THEN {Clean}
        ELSE IF hits # {} THEN {Found(word) : word \in hits}
        ELSE IF words # <<>> THEN {Found(Head(words))}
        ELSE {Clean}

normalize_text ==
    /\ res = Idle
    /\ res' = [op |-> "normalize_text", value |-> NormalizedOf(arg)]
    /\ UNCHANGED <<arg, checked, ledgerVars, webVars>>

contains_profanity ==
    /\ res = Idle
    /\ \E r \in ProfanityOf(arg) :
          res' = [op |-> "contains_profanity", value |-> r]
    /\ UNCHANGED <<arg, checked, ledgerVars, webVars>>

\* The ledger is not called.
LedgerUnused ==
    /\ file = FileAbsent /\ now = 0 /\ ret = Idle
    /\ pc = EmptyDict /\ data = EmptyDict /\ call = EmptyDict
    /\ _lock = EmptyDict

InitFilter ==
    /\ arg \in Texts \cup {NoText}
    /\ checked = <<>>
    /\ res = Idle
    /\ LedgerUnused
    /\ WebUnused

NextFilter == normalize_text \/ contains_profanity

SpecFilter == InitFilter /\ [][NextFilter]_vars

\* C15: normalize_text is idempotent (normalizing its result gives the
\* result again), its result holds only lower-case Latin letters, and the
\* empty string and None give the empty string.
C15_NormalizeIdempotent ==
    (res # Idle /\ res.op = "normalize_text") =>
        /\ NormalizedOf(res.value) = res.value
        /\ \A i \in DOMAIN res.value :
              \E j \in DOMAIN AsciiLower : res.value[i] = AsciiLower[j]
        /\ (arg = NoText \/ arg = <<>>) => res.value = <<>>

\* C15 witness: "S3-x" (upper case, a leet character and a hyphen) is
\* normalized to "sex".
C15_Witness ==
    /\ res # Idle /\ res.op = "normalize_text"
    /\ arg = <<"S", "3", "-", "x">>
    /\ res.value = <<"s", "e", "x">>

\* The blocked words that are substrings of the sequence n.
BlockedIn(n) ==
    LET parts == {SubSeq(n, i, j) : i, j \in DOMAIN n}
    IN  {t \in BLOCKED_WORDS : t \in parts}

\* C16: contains_profanity reports a match whenever the normalized text holds
\* a blocked word as a substring (so for every text a + t + b with t
\* blocked); when it reports (True, term), term is a blocked word that is a
\* substring of the normalized whole text; otherwise it returns
\* (False, None).
C16_SubstringMatch ==
    (res # Idle /\ res.op = "contains_profanity") =>
        LET present == BlockedIn(NormalizedOf(arg))
        IN  /\ present # {} => res.value.has_profanity
            /\ res.value.has_profanity => res.value.matched \in present
            /\ ~res.value.has_profanity => res.value.matched = NoText

\* C16 witness: the text "ysex" (a letter before the blocked word sex) is
\* reported with the term sex.
C16_Witness ==
    /\ res # Idle /\ res.op = "contains_profanity"
    /\ arg = <<"y", "s", "e", "x">>
    /\ res.value = Found(<<"s", "e", "x">>)

\* C20: whenever the per-word pass of contains_profanity would match, the
\* substring pass over the whole normalized text matches already; so
\* contains_profanity reports a match exactly when the substring pass alone
\* does.
C20_WordPassRedundant ==
    (res # Idle /\ res.op = "contains_profanity" /\ ~Falsy(arg)) =>
        /\ WordHits(arg) # <<>> => SubstringHits(arg) # {}
        /\ res.value.has_profanity <=> SubstringHits(arg) # {}

\* C20 witness: the one word of " S3x" is normalized to the blocked word
\* sex, which the substring pass finds too.
C20_Witness ==
    /\ res # Idle /\ res.op = "contains_profanity"
    /\ arg = <<" ", "S", "3", "x">>
    /\ WordHits(arg) = <<(<<"s", "e", "x">>)>>
    /\ res.value.has_profanity

-----------------------------------------------------------------------------
(* check_all_fields (SpecFields): the keyword arguments are a list of
   <<name, text>> pairs in the order the caller wrote them. *)

FieldNames == {"teacher_name", "school_name", "student_name"}

\* "", "Ann", "Oak", "$3xy" (normalized: sexy, which holds sex too) and
\* "a ss" (normalized: ass).
FieldTexts ==
    {<<>>, <<"A", "n", "n">>, <<"O", "a", "k">>, <<"$", "3", "x", "y">>,
     <<"a", " ", "s", "s">>}

FieldLists ==
    UNION {{f \in [1..n -> FieldNames \X FieldTexts] :
               \A i, j \in 1..n : i # j => f[i][1] # f[j][1]} :
           n \in 0..MaxFields}

\* (True, None, None)
AllClean == [is_clean |-> TRUE, field_name |-> None, matched |-> NoText]

\* (False, field_name, matched)
Rejected(field_name, matched) ==
    [is_clean |-> FALSE, field_name |-> field_name, matched |-> matched]

\* The loop of lines 119-124 without the return inside it: every field is
\* evaluated and the last match is the one returned.
RECURSIVE CheckFromLast(_, _)
CheckFromLast(fields, i) ==
    IF i > Len(fields) THEN {[value |-> AllClean, evaluated |-> <<>>]}
    ELSE LET field_name == fields[i][1]
             later == CheckFromLast(fields, i + 1)
         IN  {[value |-> IF ~x.value.is_clean THEN x.value
                         ELSE IF r.has_profanity
                         THEN Rejected(field_name, r.matched)
                         ELSE AllClean,
               evaluated |-> <<field_name>> \o x.evaluated] :
                  r \in ProfanityOf(fields[i][2]), x \in later}

\* The loop of lines 119-124 from the i-th field on: the values it can
\* return, each with the names of the fields it evaluated on the way.
RECURSIVE CheckFrom(_, _)
CheckFrom(fields, i) ==
    IF i > Len(fields) THEN {[value |-> AllClean, evaluated |-> <<>>]}
    ELSE LET field_name == fields[i][1]
             results == ProfanityOf(fields[i][2])
         IN  {[value |-> Rejected(field_name, r.matched),
               evaluated |-> <<field_name>>] :
                  r \in {q \in results : q.has_profanity}}
             \cup
             IF \E r \in results : ~r.has_profanity
             THEN {[x EXCEPT !.evaluated = <<field_name>> \o @] :
                      x \in CheckFrom(fields, i + 1)}
             ELSE {}

check_all_fields ==
    /\ res = Idle
    /\ \E r \in CheckFrom(arg, 1) :
          /\ res' = [op |-> "check_all_fields", value |-> r.value]
          /\ checked' = r.evaluated
    /\ UNCHANGED <<arg, ledgerVars, webVars>>

InitFields ==
    /\ arg \in FieldLists
    /\ checked = <<>>
    /\ res = Idle
    /\ LedgerUnused
    /\ WebUnused

NextFields == check_all_fields

SpecFields == InitFields /\ [][NextFields]_vars

\* The positions of the fields whose text contains_profanity reports.
Offending(fields) ==
    {i \in DOMAIN fields : \E r \in ProfanityOf(fields[i][2]) : r.has_profanity}

\* C17: check_all_fields evaluates the fields in the order given and returns
\* (False, name, term) for the first field contains_profanity reports, term
\* being what contains_profanity returned for it, without evaluating any
\* later field; it returns (True, None, None) exactly when no field is
\* reported, having evaluated them all.
C17_FirstOffendingField ==
    (res # Idle /\ res.op = "check_all_fields") =>
        LET bad == Offending(arg)
            first == CHOOSE i \in bad : \A j \in bad : i <= j
        IN  /\ res.value.is_clean <=> bad = {}
            /\ bad = {} =>
                  /\ res.value = [is_clean |-> TRUE, field_name |-> None,
                                  matched |-> NoText]
                  /\ checked = [i \in DOMAIN arg |-> arg[i][1]]
            /\ bad # {} =>
                  /\ res.value.field_name = arg[first][1]
                  /\ Found(res.value.matched) \in ProfanityOf(arg[first][2])
                  /\ checked = [i \in 1..first |-> arg[i][1]]

\* C17 witness: of two fields that both hold blocked content the first is
\* returned and the second is not evaluated.
C17_Witness ==
    /\ res # Idle /\ res.op = "check_all_fields"
    /\ Offending(arg) = {1, 2}
    /\ res.value.field_name = arg[1][1]
    /\ checked = <<arg[1][1]>>

-----------------------------------------------------------------------------
(* The web layer of app.py (SpecWeb, SpecWebPair): one browser session
   posting to /register and /generate-student-certificate and visiting
   /new-session. Each handler is one action. The state is kept per run:
   SpecWeb has one run; SpecWebPair has two runs that are sent the same
   requests and meet the same faults, and differ only in the teacher and
   student names they submit. *)

\* Form values, as typed: "", "Ann", "Bo " and "D4mn" for the teacher;
\* "Oak" and "Cr@p" for the school; "Wales" for the region; "", "Sam",
\* "Jo/Ann" and "$3xy" for the student.
TeacherForms ==
    {<<>>, <<"A", "n", "n">>, <<"B", "o", " ">>, <<"D", "4", "m", "n">>}
SchoolForms == {<<"O", "a", "k">>, <<"C", "r", "@", "p">>}
RegionForms == {<<"W", "a", "l", "e", "s">>}
StudentForms ==
    {<<>>, <<"S", "a", "m">>, <<"J", "o", "/", "A", "n", "n">>,
     <<"$", "3", "x", "y">>}

\* str(uuid.uuid4())[:8].upper(): two of the values it can take.
WebCertIds == {"1A2B3C4D", "9F8E7D6C"}

\* Whether canvas.save() meets an I/O error of the environment.
PdfOutcomes == {"ok", "error"}

\* The write outcomes of a document of ASCII names.
WebWriteOutcomes == {"ok", "open_error", "write_error"}

\* str.strip()
RECURSIVE Strip(_)
Strip(s) ==
    IF s = <<>> THEN s
    ELSE IF Head(s) \in Whitespace THEN Strip(Tail(s))
    ELSE IF s[Len(s)] \in Whitespace THEN Strip(SubSeq(s, 1, Len(s) - 1))
    ELSE s

\* is_clean of check_all_fields (the same for every term it may return).
IsClean(fields) == \E r \in CheckFrom(fields, 1) : r.value.is_clean

\* Line 63 with the school name left out of the check.
RegisterFieldsTeacherOnly(teacher_name, school_name) ==
    << <<"teacher_name", teacher_name>> >>

\* The keyword arguments of lines 63-66.
RegisterFields(teacher_name, school_name) ==
    << <<"teacher_name", teacher_name>>, <<"school_name", school_name>> >>

\* The keyword argument of line 169.
StudentFields(student_name) == << <<"student_name", student_name>> >>

\* What check_all_fields answers at lines 63-66 and at line 169, for the
\* stripped form values: the pairs and the names it finds clean.
CleanRegistrations ==
    {p \in {<<Strip(t), Strip(s)>> : t \in TeacherForms, s \in SchoolForms} :
        IsClean(RegisterFields(p[1], p[2]))}
CleanStudents ==
    {n \in {Strip(t) : t \in StudentForms} : IsClean(StudentFields(n))}

\* datetime.now().strftime('%B %d, %Y')
FormatDate(t) == <<"%B %d, %Y", t>>

\* The file names of lines 83 and 179; the student's has the student name
\* in it, blanks replaced by underscores.
SchoolPdf(cert_id) ==
    [prefix |-> "school_certificate", name |-> <<>>, cert_id |-> cert_id]
StudentPdf(student_name, cert_id) ==
    [prefix |-> "student_certificate",
     name |-> Replace(student_name, " ", "_"), cert_id |-> cert_id]

\* os.path.join(get_certificates_dir(), pdf_filename) names a file in a
\* directory below certificates/ (which nothing creates) when the file name
\* holds a path separator.
InMissingDir(pdf_filename) ==
    \E i \in DOMAIN pdf_filename.name : pdf_filename.name[i] = "/"

\* generate_school_certificate and generate_student_certificate raise when
\* canvas.save() cannot write output_path.
PdfRaises(pdf_filename, pf) == pf = "error" \/ InMissingDir(pdf_filename)

\* A record call of data_store on the file f, d being the loaded data after
\* the mutation: the file it leaves and whether it raises.
RecordOn(f, d, rf, wf) ==
    [store |-> IF LoadRaises(f, rf) THEN f ELSE _save_data(f, d, wf),
     raised |-> LoadRaises(f, rf) \/ wf # "ok"]

\* The state of one run.
World(r) == [session |-> session[r], store |-> store[r],
             written |-> written[r], resp |-> resp[r]]

\* The run w after a request: its session, file and log of records, and
\* the response with the flash category. `form`, `reached` (whether the
\* record call of data_store was made) and `before` are read by the
\* properties only.
Served(w, route, form, sess, stored, records, target, flash, reached) ==
    [session |-> sess, store |-> stored, written |-> records,
     resp |-> [n |-> w.resp.n + 1, route |-> route, form |-> form,
               target |-> target, flash |-> flash, reached |-> reached,
               before |-> [session |-> w.session, store |-> w.store,
                           written |-> w.written]]]

\* A request that is answered with a redirect before anything is stored.
TurnedAway(w, route, form, target, flash) ==
    Served(w, route, form, w.session, w.store, w.written, target, flash,
           FALSE)

\* POST /register (lines 51-104); is_clean is what check_all_fields returned
\* at lines 63-66.
Register(w, form, is_clean, cert_id, pf, rf, wf) ==
    LET teacher_name == Strip(form.teacher_name)
        school_name == Strip(form.school_name)
        region == Strip(form.region)
        s1 == Put(Put(Put(Put(Put(w.session,
                  "teacher_name", teacher_name),
                  "school_name", school_name),
                  "region", region),
                  "completion_date", FormatDate(now)),
                  "school_cert_id", cert_id)
        pdf_filename == SchoolPdf(cert_id)
        s2 == Put(Put(s1, "school_pdf_path", <<"certificates", pdf_filename>>),
                  "school_pdf_filename", pdf_filename)
        rec == RecordOn(w.store,
                        MutateSchool(_load_data(w.store, rf), cert_id,
                                     school_name, region, now),
                        rf, wf)
    IN  IF teacher_name = <<>> \/ school_name = <<>> \/ region = <<>>
        THEN TurnedAway(w, "register", form, "index", "required")
        ELSE IF ~is_clean
        THEN TurnedAway(w, "register", form, "index", "rejected")
        ELSE IF PdfRaises(pdf_filename, pf)
        THEN Served(w, "register", form, s1, w.store, w.written,
                    "index", "error", FALSE)
        ELSE IF rec.raised
        THEN Served(w, "register", form, s2, rec.store, w.written,
                    "index", "error", TRUE)
        ELSE Served(w, "register", form, s2, rec.store,
                    Append(w.written,
                           [kind |-> "school", cert_id |-> cert_id,
                            school_name |-> school_name, region |-> region]),
                    "school_certificate", "none", TRUE)

\* POST /generate-student-certificate (lines 155-201); is_clean is what
\* check_all_fields returned at line 169.
GenerateStudentCert(w, form, is_clean, cert_id, pf, rf, wf) ==
    LET student_name == Strip(form.student_name)
        pdf_filename == StudentPdf(student_name, cert_id)
        s1 == Put(Put(Put(w.session,
                  "last_student_pdf_path", <<"certificates", pdf_filename>>),
                  "last_student_pdf_filename", pdf_filename),
                  "last_student_name", student_name)
        school_name == Get(w.session, "school_name", None)
        rec == RecordOn(w.store,
                        MutateStudent(_load_data(w.store, rf), cert_id,
                                      school_name, now),
                        rf, wf)
        route == "generate_student_cert"
    IN  IF "school_name" \notin DOMAIN w.session
        THEN TurnedAway(w, route, form, "index", "unregistered")
        ELSE IF student_name = <<>>
        THEN TurnedAway(w, route, form, "student_certificates", "required")
        ELSE IF ~is_clean
        THEN TurnedAway(w, route, form, "student_certificates", "rejected")
        ELSE IF PdfRaises(pdf_filename, pf)
        THEN TurnedAway(w, route, form, "student_certificates", "error")
        ELSE IF rec.raised
        THEN Served(w, route, form, s1, rec.store, w.written,
                    "student_certificates", "error", TRUE)
        ELSE Served(w, route, form, s1, rec.store,
                    Append(w.written,
                           [kind |-> "student", cert_id |-> cert_id,
                            school_name |-> school_name]),
                    "student_certificate_ready", "none", TRUE)

\* GET /new-session (lines 236-240).
NewSession(w) ==
    Served(w, "new_session", EmptyDict, EmptyDict, w.store, w.written,
           "index", "none", FALSE)

\* The runs take the worlds of `after`.
Become(after) ==
    /\ session' = [r \in DOMAIN after |-> after[r].session]
    /\ store' = [r \in DOMAIN after |-> after[r].store]
    /\ written' = [r \in DOMAIN after |-> after[r].written]
    /\ resp' = [r \in DOMAIN after |-> after[r].resp]
    /\ UNCHANGED <<ledgerVars, filterVars>>

\* Fewer than MaxRequests requests were served, and the read fault can
\* happen (the file exists) in every run.
CanServe(rf) ==
    \A r \in DOMAIN resp :
        /\ resp[r].n < MaxRequests
        /\ rf = "ioerror" => store[r].st # "absent"

\* The names that are submitted to two runs or more are names that differ
\* and that no handler turns away: not blank, and clean for the filter.
CleanNames ==
    {n \in {Strip(t) : t \in TeacherForms \cup StudentForms} :
        n # <<>> /\ IsClean(<< <<"name", n>> >>)}
Admitted(names) ==
    \A r \in DOMAIN names :
        Cardinality(DOMAIN names) > 1 => Strip(names[r]) \in CleanNames

register ==
    \E teacher_name \in [DOMAIN session -> TeacherForms],
       school_name \in SchoolForms, region \in RegionForms :
        LET is_clean ==
                [r \in DOMAIN session |->
                    <<Strip(teacher_name[r]), Strip(school_name)>>
                        \in CleanRegistrations]
        IN  /\ Admitted(teacher_name)
            /\ \E cert_id \in WebCertIds, pf \in PdfOutcomes,
                  rf \in ReadOutcomes, wf \in WebWriteOutcomes :
                   /\ CanServe(rf)
                   /\ Become([r \in DOMAIN session |->
                         Register(World(r),
                                  [teacher_name |-> teacher_name[r],
                                   school_name |-> school_name,
                                   region |-> region],
                                  is_clean[r], cert_id, pf, rf, wf)])

generate_student_cert ==
    \E student_name \in [DOMAIN session -> StudentForms] :
        LET is_clean ==
                [r \in DOMAIN session |->
                    Strip(student_name[r]) \in CleanStudents]
        IN  /\ Admitted(student_name)
            /\ \E cert_id \in WebCertIds, pf \in PdfOutcomes,
                  rf \in ReadOutcomes, wf \in WebWriteOutcomes :
                   /\ CanServe(rf)
                   /\ Become([r \in DOMAIN session |->
                         GenerateStudentCert(World(r),
                             [student_name |-> student_name[r]],
                             is_clean[r], cert_id, pf, rf, wf)])

new_session ==
    /\ CanServe("ok")
    /\ Become([r \in DOMAIN session |-> NewSession(World(r))])

\* No request was served yet.
NoResponse == [n |-> 0, route |-> "none"]

InitWeb(runs) ==
    /\ session = [r \in runs |-> EmptyDict]
    /\ store = [r \in runs |-> FileAbsent]
    /\ written = [r \in runs |-> <<>>]
    /\ resp = [r \in runs |-> NoResponse]
    /\ LedgerUnused
    /\ FilterUnused

NextWeb == register \/ generate_student_cert \/ new_session

SpecWeb == InitWeb({1}) /\ [][NextWeb]_vars

SpecWebPair == InitWeb({1, 2}) /\ [][NextWeb]_vars

\* The form value, stripped, holds a blocked word once normalized.
HasBlocked(value) == BlockedIn(NormalizedOf(Strip(value))) # {}

\* The request of run r was answered without a call of the ledger and left
\* the session, the file and the log of records as they were.
LeftUntouched(r) ==
    /\ ~resp[r].reached
    /\ session[r] = resp[r].before.session
    /\ store[r] = resp[r].before.store
    /\ written[r] = resp[r].before.written

C19_SchoolRecordFirst ==
    \A r \in DOMAIN resp :
        (resp[r].route = "generate_student_cert"
            /\ Len(written[r]) > Len(resp[r].before.written))
        => \E k \in DOMAIN resp[r].before.written :
              /\ resp[r].before.written[k].kind = "school"
              /\ resp[r].before.written[k].cert_id =
                    session[r]["school_cert_id"]

\* C14 (as claimed): two runs that differ only in the teacher and student
\* names they submit, all of them passing the filter, hand the ledger the
\* same records (kind, id, school_name, region) in the same order.
C14_SameRecordsWhateverTheNames ==
    \A r1, r2 \in DOMAIN written : written[r1] = written[r2]

=============================================================================
